---- MODULE Spec2Model ----
(***************************************************************************)
(* pc.resources.ResourceLoader (josephwinston/engine): the loader's        *)
(* tables and counters, the request objects it is handed, the promises it  *)
(* creates for them, and the request() calls waiting on those promises.    *)
(*                                                                         *)
(* Promises are modelled by their state (pending / resolved / rejected);   *)
(* a `then` callback is a separate step that runs once its promise has     *)
(* settled, so every interleaving the event loop allows is explored.       *)
(* Handlers honour their contract: load settles with data or an error,     *)
(* open returns a resource or throws.                                      *)
(***************************************************************************)
EXTENDS Integers, Sequences, FiniteSets, TLC

\* ---------------------------------------------------------------- bounds
MaxCalls == 2        \* request() calls a behaviour of Spec makes
MaxTreeCalls == 3    \* request() calls of TreeSpec, nested ones included
MaxOpsCalls == 1     \* request() calls a behaviour of OpsSpec makes
MaxFontCalls == 2    \* request() calls a behaviour of FontSpec makes
MaxHandlerCalls == 2 \* request() calls a behaviour of HandlerSpec makes
MaxProgressCalls == 2 \* request() calls a behaviour of ProgressSpec makes
MaxEvictCalls == 3   \* request() calls a behaviour of EvictSpec makes
MaxCycleCalls == 3   \* request() calls of CycleSpec, nested ones included
MaxCloneCalls == 2   \* request() calls a behaviour of CloneSpec makes
MaxDataCalls == 2    \* request() calls a behaviour of DataSpec makes
MaxRounds == 4       \* rounds of check counted per call before counting from 1 again

\* ---------------------------------------------------------------- values
Identifiers == {"a", "b", "p", "q", "l", "c"}
Hashable == {"a", "b"}          \* identifiers the caller registers hashes for
Hashes == {"h"}
OpsHashes == {"h", "g"}         \* the hashes of OpsSpec
NoHash == "none"
NoId == "none"
NullId == -1                    \* request.id === null

\* The type tags, the request types that carry them and the handlers.
Types == {"image", "model", "pack", "script", "font", ""}
Unregistered == "none"

\* request.type of a new RequestType()
TypeOf(RequestType) ==
    CASE RequestType = "ImageRequest" -> "image"
      [] RequestType = "ModelRequest" -> "model"
      [] RequestType = "PackRequest" -> "pack"
      [] RequestType = "ScriptRequest" -> "script"
      [] RequestType = "FontRequest" -> "font"
      [] OTHER -> ""

\* The request types and handlers the application registers with its loader.
RequestTypeOf(type) ==
    CASE type = "image" -> "ImageRequest"
      [] type = "model" -> "ModelRequest"
      [] type = "pack" -> "PackRequest"
      [] type = "script" -> "ScriptRequest"
      [] OTHER -> Unregistered

HandlerOf(type) ==
    CASE type = "image" -> "ImageResourceHandler"
      [] type = "model" -> "ModelResourceHandler"
      [] type = "pack" -> "PackResourceHandler"
      [] type = "script" -> "ScriptResourceHandler"
      [] OTHER -> Unregistered

Registered(table(_)) == [type \in Types |-> table(type)]

NoRes == [src |-> "none", cls |-> "none", data |-> "none", copy |-> 0]

Template(identifier, type, Type, data, result) ==
    [identifier |-> identifier, type |-> type, Type |-> Type,
     data |-> data, result |-> result]

ImageA == Template("a", "image", "undefined", "none", FALSE)
ImageB == Template("b", "image", "undefined", "none", FALSE)
ImageAResult == Template("a", "image", "undefined", "none", TRUE)
FontA == Template("a", "font", "undefined", "none", FALSE)
PackA == Template("a", "pack", "Pack", "none", FALSE)
PackP == Template("p", "pack", "Pack", "none", FALSE)
PackQ == Template("q", "pack", "Pack", "none", FALSE)
ScriptL == Template("l", "script", "undefined", "none", FALSE)
PackC == Template("c", "pack", "Pack", "none", FALSE)
ModelA == Template("a", "model", "undefined", "none", FALSE)
ImageAData == Template("a", "image", "undefined", "d", FALSE)

\* The batches a caller passes to request().
Batches == { <<ImageA>>, <<ImageB>>, <<PackA>>, <<ImageA, ImageB>> }

\* The batches of OpsSpec; no handler is registered for fonts.
OpsBatches == { <<ImageB>>, <<ImageA, ImageA>>, <<FontA, ImageB>> }

\* The batches of FontSpec.
FontBatches == { <<FontA>>, <<ImageB>>, <<FontA, ImageB>> }

\* The batches of HandlerSpec.
HandlerBatches == { <<ImageA>>, <<FontA>> }

\* The same, where packs spawn child requests.
TreeBatches == { <<ImageA>>, <<PackP>>, <<PackP, ImageA>> }

\* The batches of CloneSpec; the model handler's clone returns a copy.
CloneBatches == { <<ModelA>>, <<ModelA, ModelA>>, <<ImageB>> }

\* The batches of DataSpec: requests for one image with and without data.
DataBatches == { <<ImageA>>, <<ImageAData>>, <<ImageAData, ImageA>> }

\* The batches of CycleSpec.
CycleBatches == { <<ImageA>>, <<PackC>>, <<PackP>> }

\* The requests a pack's components issue while the pack is opened, by the
\* identifier the pack was loaded from. A component of pack c requests
\* pack c itself.
Refs(url) ==
    CASE url = "p" -> <<PackQ>>
      [] url = "q" -> <<ImageA>>
      [] url = "c" -> <<PackC>>
      [] OTHER -> <<>>

\* ---------------------------------------------------------------- state
VARIABLES
    _types,         \* type -> request type (Unregistered: no entry)
    _handlers,      \* type -> handler (Unregistered: no entry)
    _requests,      \* canonical identifier -> request object (0: no entry)
    _cache,         \* hash -> resource (NoRes: no entry)
    _hashes,        \* identifier -> hash (NoHash: no entry)
    _canonicals,    \* hash -> canonical identifier (NoId: no entry)
    _requested,
    _loaded,
    _sequence,
    objs,           \* the request objects, by creation order
    calls,          \* the request() calls, by call order
    fired,          \* the notifications fired by the last step, in order
    lastProgress,   \* the last progress notification fired before that
    cloned,         \* number of handler.clone invocations
    op,             \* the registry or cache operation the last step called
    app             \* the application that owns the loader

vars == <<_types, _handlers, _requests, _cache, _hashes, _canonicals, _requested,
          _loaded, _sequence, objs, calls, fired, lastProgress, cloned, op, app>>

\* A call of a registry or cache operation: its name, its arguments and
\* what it returned.
Op(name, hash, identifier, res) ==
    [name |-> name, hash |-> hash, identifier |-> identifier, res |-> res,
     err |-> "none"]

NoOp == Op("none", NoHash, NoId, NoRes)

\* The application: whether it is constructed, the request() call for its
\* libraries (0: none), its librariesLoaded flag, the listeners start and
\* loadFromToc have put on 'librariesloaded', whether the tick loop runs,
\* and how far loadFromToc has got (none / assets / timeout / pack).
NoApp ==
    [made |-> FALSE, libs |-> 0, librariesLoaded |-> FALSE, listeners |-> <<>>,
     ticking |-> FALSE, toc |-> "none"]

\* The loader and everything it references, as one value the operations
\* below transform.
State ==
    [types |-> _types, handlers |-> _handlers, requests |-> _requests, cache |-> _cache,
     hashes |-> _hashes, canonicals |-> _canonicals, requested |-> _requested,
     loaded |-> _loaded, sequence |-> _sequence, objs |-> objs, calls |-> calls,
     fired |-> <<>>, last |-> lastProgress, cloned |-> cloned, ret |-> NoRes,
     op |-> NoOp, app |-> app]

Commit(L) ==
    /\ _types' = L.types
    /\ _handlers' = L.handlers
    /\ _requests' = L.requests
    /\ _cache' = L.cache
    /\ _hashes' = L.hashes
    /\ _canonicals' = L.canonicals
    /\ _requested' = L.requested
    /\ _loaded' = L.loaded
    /\ _sequence' = L.sequence
    /\ objs' = L.objs
    /\ calls' = L.calls
    /\ fired' = L.fired
    /\ lastProgress' = L.last
    /\ cloned' = L.cloned
    /\ op' = L.op
    /\ app' = L.app

\* ---------------------------------------------------------------- events
\* A notification. A progress notification carries loaded (l) and requested
\* (q), and what an observer of the loader knows when it arrives: the
\* notification before it (prev; prev.stale: _requested changed in between)
\* and the number of promises of dispatched requests still pending, the one
\* this post-open resolves not counted (open).
NoProgress == [l |-> 0, q |-> 0, stale |-> TRUE]

Event(ev, r, l, q, res) ==
    [ev |-> ev, r |-> r, l |-> l, q |-> q, res |-> res,
     prev |-> NoProgress, open |-> 0]

PendingPromises(L, r) ==
    Cardinality({i \in 1..Len(L.objs[r].promises) :
                    L.objs[r].promises[i].st = "pending"})

RECURSIVE Sum(_, _)
Sum(f, n) == IF n = 0 THEN 0 ELSE f[n] + Sum(f, n - 1)

Unsettled(L) ==
    Sum([r \in 1..Len(L.objs) |-> PendingPromises(L, r)], Len(L.objs))

\* 1 while the primary promise of request r has not settled, 0 after.
PrimaryPending(L, r) ==
    IF L.objs[r].promises[1].st = "pending" THEN 1 ELSE 0

\* 1 while request() call c has not settled, 0 after.
CallPending(L, c) == IF L.calls[c].st = "pending" THEN 1 ELSE 0

\* An error notification carries whether the request's primary promise is
\* still pending when it arrives (open = 1) or has settled (open = 0); a
\* complete notification, whether the call is.
fire(L, e) ==
    IF e.ev = "progress"
    THEN LET others == Unsettled(L) - (IF PendingPromises(L, e.r) > 0 THEN 1 ELSE 0)
         IN [L EXCEPT !.fired = Append(@, [e EXCEPT !.prev = L.last,
                                                    !.open = others]),
                      !.last = [l |-> e.l, q |-> e.q, stale |-> FALSE]]
    ELSE IF e.ev = "error"
    THEN [L EXCEPT !.fired = Append(@, [e EXCEPT !.open = PrimaryPending(L, e.r)])]
    ELSE IF e.ev = "complete"
    THEN [L EXCEPT !.fired = Append(@, [e EXCEPT !.open = CallPending(L, e.r)])]
    ELSE [L EXCEPT !.fired = Append(@, e)]

\* ---------------------------------------------------------------- request objects and promises
ResourceRequest(t) ==
    [id |-> NullId, canonical |-> t.identifier, promises |-> <<>>,
     children |-> <<>>, data |-> t.data, result |-> t.result,
     identifier |-> t.identifier, type |-> t.type, Type |-> t.Type,
     load |-> "none", by |-> Unregistered, url |-> "none"]

Pending == [st |-> "pending", val |-> NoRes, err |-> "none"]
Resolved(resource) == [st |-> "resolved", val |-> resource, err |-> "none"]
Rejected(error) == [st |-> "rejected", val |-> NoRes, err |-> error]

\* ---------------------------------------------------------------- handlers
\* The class of the resource a handler's open() builds.
ClassOf(type) ==
    CASE type = "pack" -> "Pack"
      [] type = "script" -> "Script"
      [] type = "model" -> "Model"
      [] OTHER -> "Image"

\* The types whose handler overrides clone to return a copy. The pack
\* handler inherits the default, which returns the original.
Copying == {"model"}

\* handler.clone(resource, request)
clone(resource, type) ==
    IF type \in Copying THEN [resource EXCEPT !.copy = @ + 1] ELSE resource

\* Mutant of InstanceOf: the type check always passes.
InstanceOfAny(resource, Type) == TRUE

\* resource instanceof request.Type
InstanceOf(resource, Type) == resource.cls = Type

\* ---------------------------------------------------------------- handler registration
\* Mutant of registerHandler: the first handler of a type is kept.
registerHandlerKeepFirst(L, RequestType, handler) ==
    IF TypeOf(RequestType) = ""
    THEN [L EXCEPT !.op = [Op("registerHandler", handler, RequestType, NoRes)
                              EXCEPT !.err = "ResourceRequests must have a type"]]
    ELSE IF L.handlers[TypeOf(RequestType)] # Unregistered
    THEN [L EXCEPT !.op = Op("registerHandler", handler, RequestType, NoRes)]
    ELSE [L EXCEPT !.types[TypeOf(RequestType)] = RequestType,
                   !.handlers[TypeOf(RequestType)] = handler,
                   !.op = Op("registerHandler", handler, RequestType, NoRes)]

\* registerHandler(RequestType, handler); the call is recorded with the
\* handler in the place of the hash and the request type in the place of
\* the identifier, and the error it throws in err.
registerHandler(L, RequestType, handler) ==
    IF TypeOf(RequestType) = ""
    THEN [L EXCEPT !.op = [Op("registerHandler", handler, RequestType, NoRes)
                              EXCEPT !.err = "ResourceRequests must have a type"]]
    ELSE [L EXCEPT !.types[TypeOf(RequestType)] = RequestType,
                   !.handlers[TypeOf(RequestType)] = handler,
                   !.op = Op("registerHandler", handler, RequestType, NoRes)]

\* ---------------------------------------------------------------- hash registry and cache
getHash(L, identifier) == L.hashes[identifier]

\* Mutant of registerHash: the last identifier registered becomes canonical.
registerHashLastCanonical(L, hash, identifier) ==
    LET L1 == IF L.hashes[identifier] = NoHash
              THEN [L EXCEPT !.hashes[identifier] = hash] ELSE L
    IN [L1 EXCEPT !.canonicals[hash] = identifier]

\* Mutant of registerHash: an identifier's hash is replaced.
registerHashReplace(L, hash, identifier) ==
    LET L1 == [L EXCEPT !.hashes[identifier] = hash]
    IN IF L1.canonicals[hash] = NoId
       THEN [L1 EXCEPT !.canonicals[hash] = identifier] ELSE L1

registerHash(L, hash, identifier) ==
    LET L1 == IF L.hashes[identifier] = NoHash
              THEN [L EXCEPT !.hashes[identifier] = hash] ELSE L
    IN IF L1.canonicals[hash] = NoId
       THEN [L1 EXCEPT !.canonicals[hash] = identifier] ELSE L1

\* Mutant of unregisterHash: the resource cached under the hash goes too.
unregisterHashEvicting(L, identifier) ==
    IF L.hashes[identifier] # NoHash
    THEN [L EXCEPT !.canonicals[L.hashes[identifier]] = NoId,
                   !.cache[L.hashes[identifier]] = NoRes,
                   !.hashes[identifier] = NoHash]
    ELSE L

\* Mutant of unregisterHash: the hash keeps its canonical identifier.
unregisterHashKeepCanonical(L, identifier) ==
    [L EXCEPT !.hashes[identifier] = NoHash]

unregisterHash(L, identifier) ==
    LET hash == getHash(L, identifier)
    IN IF hash # NoHash
       THEN [L EXCEPT !.canonicals[hash] = NoId, !.hashes[identifier] = NoHash]
       ELSE L

\* Mutant of addToCache: a resource without a hash is stored all the same.
addToCacheAlways(L, identifier, resource) ==
    LET hash == getHash(L, identifier)
    IN IF hash # NoHash
       THEN [L EXCEPT !.cache[hash] = resource]
       ELSE [L EXCEPT !.cache[CHOOSE h \in DOMAIN L.cache : TRUE] = resource]

addToCache(L, identifier, resource) ==
    LET hash == getHash(L, identifier)
    IN IF hash # NoHash THEN [L EXCEPT !.cache[hash] = resource] ELSE L

\* Mutant of getFromCache: the cache is read by identifier, not by hash.
getFromCacheByIdentifier(L, identifier) ==
    IF identifier \in DOMAIN L.cache THEN L.cache[identifier] ELSE NoRes

getFromCache(L, identifier) ==
    LET hash == getHash(L, identifier)
    IN IF hash # NoHash THEN L.cache[hash] ELSE NoRes

\* Mutant of removeFromCache: the entry is looked up by identifier.
removeFromCacheByIdentifier(L, identifier) ==
    IF identifier \in DOMAIN L.cache
    THEN [L EXCEPT !.cache[identifier] = NoRes] ELSE L

removeFromCache(L, identifier) ==
    LET hash == getHash(L, identifier)
    IN IF hash # NoHash THEN [L EXCEPT !.cache[hash] = NoRes] ELSE L

_makeCanonical(L, r) ==
    LET hash == getHash(L, L.objs[r].identifier)
    IN IF hash # NoHash /\ L.canonicals[hash] # NoId
       THEN [L EXCEPT !.objs[r].canonical = L.canonicals[hash]]
       ELSE [L EXCEPT !.objs[r].canonical = L.objs[r].identifier]

_findExistingRequest(L, r) ==
    LET existing == L.requests[L.objs[r].canonical]
    IN IF existing # 0
       THEN IF \/ L.objs[existing].type # L.objs[r].type
               \/ L.objs[existing].result
               \/ L.objs[r].result
            THEN r
            ELSE existing
       ELSE r

\* ---------------------------------------------------------------- dispatch
\* Each operation takes the loader state L and returns the state after it;
\* a value it returns is left in .ret.

\* Mutant of ProgressEvent: the operands of the division swapped.
ProgressEventSwapped(L, r) == Event("progress", r, L.requested, L.loaded, NoRes)

\* The progress notification of _postOpen: this._loaded / this._requested.
ProgressEvent(L, r) == Event("progress", r, L.loaded, L.requested, NoRes)

\* Lines 513-514: delete this._requests[request.canonical]; this._loaded++
\* (with the count of the clone invocation of line 511).
Cleanup(L, r) ==
    [L EXCEPT !.cloned = @ + 1,
              !.requests[L.objs[r].canonical] = 0,
              !.loaded = @ + 1]

\* Mutant of Notify: no load notification.
NotifyProgressOnly(L, res, r) ==
    [fire(L, ProgressEvent(L, r)) EXCEPT !.ret = res]

\* Lines 515-518: the two notifications, and the clone as the result.
Notify(L, res, r) ==
    [fire(fire(L, ProgressEvent(L, r)), Event("load", r, 0, 0, res))
        EXCEPT !.ret = res]

_postOpen(L, resource, r) ==
    Notify(Cleanup(addToCache(L, L.objs[r].canonical, resource), r),
           clone(resource, L.objs[r].type), r)

\* resolve(resource) / reject(error) of promise i of request r.
ResolveWithRet(L, r, i) == [L EXCEPT !.objs[r].promises[i] = Resolved(L.ret)]

Reject(L, r, i, error) == [L EXCEPT !.objs[r].promises[i] = Rejected(error)]

\* Line 467: there is a cached resource and it matches the request's Type.
CacheHit(L, r) ==
    /\ getFromCache(L, L.objs[r].canonical) # NoRes
    /\ \/ L.objs[r].Type = "undefined"
       \/ InstanceOf(getFromCache(L, L.objs[r].canonical), L.objs[r].Type)

\* The executor of the primary promise (lines 455-488).
Executor(L, r) ==
    IF L.handlers[L.objs[r].type] = Unregistered
    THEN Reject(fire(L, Event("error", r, 0, 0, NoRes)), r, 1, "missing")
    ELSE IF CacheHit(L, r)
         THEN ResolveWithRet(_postOpen(L, getFromCache(L, L.objs[r].canonical), r),
                             r, 1)
         ELSE [L EXCEPT !.objs[r].load = "pending",
                        !.objs[r].by = L.handlers[L.objs[r].type],
                        !.objs[r].url = L.objs[r].canonical]

\* Lines 443-490: a follow-on promise when the request was made before, the
\* primary promise otherwise.
Promise(L, r) ==
    IF Len(L.objs[r].promises) > 0
    THEN [L EXCEPT !.objs[r].promises = Append(@, Pending)]
    ELSE Executor([L EXCEPT !.objs[r].promises = <<Pending>>], r)

\* Mutant of AssignId: every dispatch takes the next sequence id.
AssignIdAlways(L, r) ==
    [L EXCEPT !.objs[r].id = L.sequence, !.sequence = @ + 1]

\* Lines 438-440
AssignId(L, r) ==
    IF L.objs[r].id = NullId
    THEN [L EXCEPT !.objs[r].id = L.sequence, !.sequence = @ + 1]
    ELSE L

\* Mutant of Count: a request merged into one in flight is not counted.
CountDispatched(L, r) ==
    [L EXCEPT !.requests[L.objs[r].canonical] = r,
              !.requested = IF Len(L.objs[r].promises) = 1 THEN @ + 1 ELSE @,
              !.last.stale = TRUE]

\* Lines 492-493
Count(L, r) ==
    [L EXCEPT !.requests[L.objs[r].canonical] = r,
              !.requested = @ + 1,
              !.last.stale = TRUE]

_request(L, r) ==
    Count(Promise(fire(AssignId(L, r), Event("request", r, 0, 0, NoRes)), r), r)

\* Mutant of push: the new element goes to the front.
unshift(list, x) == <<x>> \o list

\* promises.push(x)
push(list, x) == Append(list, x)

\* A caller's new request object for template t, and the request
\* _findExistingRequest returns for it (line 262).
Allocate(L, t) == [L EXCEPT !.objs = Append(@, ResourceRequest(t))]

Effective(L, t) == _findExistingRequest(Allocate(L, t), Len(L.objs) + 1)

\* Mutant of Merge: the existing request keeps its data.
MergeKeepData(L, t, req) ==
    IF req # Len(L.objs) + 1 THEN L ELSE Allocate(L, t)

\* Lines 265-267: an existing request takes the data of the new one (the
\* new object is not used again).
Merge(L, t, req) ==
    IF req # Len(L.objs) + 1
    THEN [L EXCEPT !.objs[req].data = t.data]
    ELSE Allocate(L, t)

\* Lines 275-277
AddChild(L, parent, req) ==
    IF parent # 0
    THEN [L EXCEPT !.objs[parent].children = Append(@, req)]
    ELSE L

\* Lines 271-272
Collect(L, req, acc) ==
    [L |-> L,
     requested |-> Append(acc.requested, req),
     promises |-> push(acc.promises, <<req, Len(L.objs[req].promises)>>)]

\* One iteration of the loop of request() (lines 260-278) for the input
\* template t; acc holds the state, the requested list and the promises.
RequestOne(t, parent, acc) ==
    Collect(AddChild(_request(_makeCanonical(Merge(acc.L, t, Effective(acc.L, t)),
                                             Effective(acc.L, t)),
                              Effective(acc.L, t)),
                     parent, Effective(acc.L, t)),
            Effective(acc.L, t), acc)

RECURSIVE RequestLoop(_, _, _, _)
RequestLoop(acc, batch, i, parent) ==
    IF i > Len(batch) THEN acc
    ELSE RequestLoop(RequestOne(batch[i], parent, acc), batch, i + 1, parent)

\* The call waiting on pc.promise.all(promises) (lines 304-308).
Call(acc, batch, parent) ==
    [acc.L EXCEPT !.calls =
        Append(@, [inputs |-> batch, parent |-> parent, st |-> "pending",
                   requested |-> acc.requested, promises |-> acc.promises,
                   round |-> 0, waitReqs |-> acc.requested,
                   waitProms |-> acc.promises, resources |-> <<>>])]

\* request(requests, options)
request(L, batch, parent) ==
    Call(RequestLoop([L |-> L, requested |-> <<>>, promises |-> <<>>],
                     batch, 1, parent),
         batch, parent)

\* ---------------------------------------------------------------- open
\* The resource handler.open builds from the loaded data.
Opened(L, r) ==
    [src |-> L.objs[r].url, cls |-> ClassOf(L.objs[r].type),
     data |-> L.objs[r].data, copy |-> 0]

\* _open -> handler.open(data, request, options): builds the resource; the
\* pack handler's components issue their requests with the pack's request
\* as options.parent while the pack is being opened.
_open(L, r) ==
    IF L.objs[r].type = "pack" /\ Len(Refs(L.objs[r].url)) > 0
    THEN [request(L, Refs(L.objs[r].url), r) EXCEPT !.ret = Opened(L, r)]
    ELSE [L EXCEPT !.ret = Opened(L, r)]

\* The request object of new RequestType(), about to be opened with data.
NewRequest(RequestType, data) ==
    [ResourceRequest(Template(NoId, TypeOf(RequestType), "undefined", "none", FALSE))
        EXCEPT !.url = data]

\* The call of open is recorded with the request type in the place of the
\* identifier, what it returned and the error it threw.
Returned(L, RequestType) == [L EXCEPT !.op = Op("open", NoHash, RequestType, L.ret)]

\* Mutant of open: the opened resource is counted as loaded.
openCounted(L, RequestType, data) ==
    IF L.handlers[TypeOf(RequestType)] = Unregistered
    THEN [L EXCEPT !.op = [Op("open", NoHash, RequestType, NoRes)
                              EXCEPT !.err = "TypeError"]]
    ELSE Returned([L EXCEPT !.loaded = @ + 1,
                            !.ret = [src |-> data, cls |-> ClassOf(TypeOf(RequestType)),
                                     data |-> "none", copy |-> 0]],
                  RequestType)

\* open(RequestType, data): the handler's open on a request object of its
\* own. The object is kept when the handler's open issues requests, which
\* have it as their parent.
open(L, RequestType, data) ==
    IF L.handlers[TypeOf(RequestType)] = Unregistered
    THEN [L EXCEPT !.op = [Op("open", NoHash, RequestType, NoRes)
                              EXCEPT !.err = "TypeError"]]
    ELSE IF TypeOf(RequestType) = "pack" /\ Len(Refs(data)) > 0
    THEN Returned(_open([L EXCEPT !.objs = Append(@, NewRequest(RequestType, data))],
                        Len(L.objs) + 1),
                  RequestType)
    ELSE Returned([L EXCEPT !.ret = [src |-> data,
                                     cls |-> ClassOf(TypeOf(RequestType)),
                                     data |-> "none", copy |-> 0]],
                  RequestType)

\* Lines 476-480: post-open of what _open returned, and resolve.
PostOpenRet(L, r) == ResolveWithRet(_postOpen(L, L.ret, r), r, 1)

\* ---------------------------------------------------------------- the subtree check
RECURSIVE Flatten(_)
Flatten(ss) == IF ss = <<>> THEN <<>> ELSE Head(ss) \o Flatten(Tail(ss))

PromiseOf(L, ref) == L.objs[ref[1]].promises[ref[2]]

\* Lines 283-290: the children of the requests, and their promises.
ChildRequests(L, requests) ==
    Flatten([k \in 1..Len(requests) |-> L.objs[requests[k]].children])

ChildPromises(L, children) ==
    Flatten([k \in 1..Len(children) |->
                [j \in 1..Len(L.objs[children[k]].promises) |-> <<children[k], j>>]])

\* The resources pc.promise.all(promises) resolved with (line 304).
Resources(L, c) ==
    IF L.calls[c].round = 0
    THEN [k \in 1..Len(L.calls[c].promises) |->
             PromiseOf(L, L.calls[c].promises[k]).val]
    ELSE L.calls[c].resources

\* Mutant of Round: the call completes without waiting for the children.
RoundNoWait(L, c, childRequests, childPromises) ==
    [fire(L, Event("complete", c, 0, 0, NoRes))
        EXCEPT !.calls[c].resources = Resources(L, c),
               !.calls[c].st = "resolved"]

\* Lines 292-301
Round(L, c, childRequests, childPromises) ==
    IF Len(childPromises) > 0
    THEN [L EXCEPT !.calls[c].resources = Resources(L, c),
                   !.calls[c].round = IF @ < MaxRounds THEN @ + 1 ELSE 1,
                   !.calls[c].waitReqs = childRequests,
                   !.calls[c].waitProms = childPromises]
    ELSE [fire(L, Event("complete", c, 0, 0, NoRes))
             EXCEPT !.calls[c].resources = Resources(L, c),
                    !.calls[c].st = "resolved"]

\* check(resources, requests, promises) of request() (lines 281-302) for
\* call c, run when pc.promise.all of the promises it waits on resolved.
check(L, c) ==
    Round(L, c, ChildRequests(L, L.calls[c].waitReqs),
          ChildPromises(L, ChildRequests(L, L.calls[c].waitReqs)))

\* ---------------------------------------------------------------- actions
Init ==
    /\ _types = Registered(RequestTypeOf)
    /\ _handlers = Registered(HandlerOf)
    /\ _requests = [i \in Identifiers |-> 0]
    /\ _cache = [h \in Hashes |-> NoRes]
    /\ _hashes = [i \in Identifiers |-> NoHash]
    /\ _canonicals = [h \in Hashes |-> NoId]
    /\ _requested = 0
    /\ _loaded = 0
    /\ _sequence = 0
    /\ objs = <<>>
    /\ calls = <<>>
    /\ fired = <<>>
    /\ lastProgress = NoProgress
    /\ cloned = 0
    /\ op = NoOp
    /\ app = NoApp

\* The step to state L, taken when L is within the bound on calls.
Step(L, maxCalls) == Len(L.calls) <= maxCalls /\ Commit(L)

\* loader.registerHash(hash, identifier)
RegisterHash ==
    /\ objs = <<>>
    /\ \E hash \in Hashes, identifier \in Hashable :
          Commit(registerHash(State, hash, identifier))

\* loader.unregisterHash(identifier)
UnregisterHash ==
    /\ objs = <<>>
    /\ \E identifier \in Hashable :
          /\ _hashes[identifier] # NoHash
          /\ Commit(unregisterHash(State, identifier))

\* A caller's loader.request(batch)
RequestFrom(batches, maxCalls) ==
    \E batch \in batches : Step(request(State, batch, 0), maxCalls)

Request == RequestFrom(Batches, MaxCalls)

TreeRequest == RequestFrom(TreeBatches, MaxTreeCalls)

\* handler.load resolved with data: open, post-open, resolve (lines 474-480)
LoadSucceed ==
    /\ \E r \in 1..Len(objs) :
          /\ objs[r].load = "pending"
          /\ Step(PostOpenRet(_open([State EXCEPT !.objs[r].load = "ok"], r), r),
                  MaxTreeCalls)

\* Mutant of OpenThrows: the exception is not caught, the promise is left
\* as it is.
OpenThrowsUncaught ==
    /\ \E r \in 1..Len(objs) :
          /\ objs[r].load = "pending"
          /\ Commit([State EXCEPT !.objs[r].load = "ok"])

\* handler.load resolved with data and handler.open threw (lines 481-483)
OpenThrows ==
    /\ \E r \in 1..Len(objs) :
          /\ objs[r].load = "pending"
          /\ Commit(Reject([State EXCEPT !.objs[r].load = "ok"], r, 1, "open"))

\* Mutant of LoadFail: the promise is rejected first, the notification
\* fired after.
LoadFailRejectFirst ==
    /\ \E r \in 1..Len(objs) :
          /\ objs[r].load = "pending"
          /\ Commit(fire(Reject([State EXCEPT !.objs[r].load = "failed"],
                                 r, 1, "load"),
                          Event("error", r, 0, 0, NoRes)))

\* handler.load rejected (lines 484-487)
LoadFail ==
    /\ \E r \in 1..Len(objs) :
          /\ objs[r].load = "pending"
          /\ Commit(Reject(fire([State EXCEPT !.objs[r].load = "failed"],
                                 Event("error", r, 0, 0, NoRes)),
                            r, 1, "load"))

\* Mutant of FollowOn: the follow-on promise takes the primary promise's
\* resource as it is, without a post-open of its own.
FollowOnShared ==
    /\ \E r \in 1..Len(objs) : \E i \in 2..Len(objs[r].promises) :
          /\ objs[r].promises[i].st = "pending"
          /\ objs[r].promises[1].st = "resolved"
          /\ Commit([State EXCEPT !.objs[r].promises[i] =
                                     Resolved(objs[r].promises[1].val)])

\* The then-callback of a follow-on promise (lines 446-449)
FollowOn ==
    /\ \E r \in 1..Len(objs) : \E i \in 2..Len(objs[r].promises) :
          /\ objs[r].promises[i].st = "pending"
          /\ objs[r].promises[1].st = "resolved"
          /\ Commit(ResolveWithRet(_postOpen(State, objs[r].promises[1].val, r),
                                    r, i))

\* Mutant of AllResolved: all have settled, resolved or not.
AllSettled(c) ==
    \A k \in 1..Len(calls[c].waitProms) :
        PromiseOf(State, calls[c].waitProms[k]).st # "pending"

\* pc.promise.all(promises) has resolved.
AllResolved(c) ==
    \A k \in 1..Len(calls[c].waitProms) :
        PromiseOf(State, calls[c].waitProms[k]).st = "resolved"

SomeRejected(c) ==
    \E k \in 1..Len(calls[c].waitProms) :
        PromiseOf(State, calls[c].waitProms[k]).st = "rejected"

\* pc.promise.all(...) resolved: check (lines 293-294, 304-305)
CallCheckOf(c) ==
    /\ c \in 1..Len(calls)
    /\ calls[c].st = "pending"
    /\ AllResolved(c)
    /\ Commit(check(State, c))

CallCheck == \E c \in 1..Len(calls) : CallCheckOf(c)

\* pc.promise.all(...) rejected: reject(error) (lines 295-297, 306-308)
CallReject ==
    /\ \E c \in 1..Len(calls) :
          /\ calls[c].st = "pending"
          /\ SomeRejected(c)
          /\ Commit([State EXCEPT !.calls[c].st = "rejected"])

\* ---------------------------------------------------------------- the operations of OpsSpec
\* The resources a caller puts into the cache itself.
Cacheable == { [src |-> "b", cls |-> "Image", data |-> "none", copy |-> 0] }

OpsInit ==
    /\ _types = Registered(RequestTypeOf)
    /\ _handlers = Registered(HandlerOf)
    /\ _requests = [i \in Identifiers |-> 0]
    /\ _cache = [h \in OpsHashes |-> NoRes]
    /\ _hashes = [i \in Identifiers |-> NoHash]
    /\ _canonicals = [h \in OpsHashes |-> NoId]
    /\ _requested = 0
    /\ _loaded = 0
    /\ _sequence = 0
    /\ objs = <<>>
    /\ calls = <<>>
    /\ fired = <<>>
    /\ lastProgress = NoProgress
    /\ cloned = 0
    /\ op = NoOp
    /\ app = NoApp

\* loader.registerHash(hash, identifier), at any time
OpsRegisterHash ==
    \E hash \in OpsHashes, identifier \in Hashable :
        Commit([registerHash(State, hash, identifier)
                   EXCEPT !.op = Op("registerHash", hash, identifier, NoRes)])

\* loader.unregisterHash(identifier), at any time
OpsUnregisterHash ==
    \E identifier \in Hashable :
        Commit([unregisterHash(State, identifier)
                   EXCEPT !.op = Op("unregisterHash", NoHash, identifier, NoRes)])

\* loader.addToCache(identifier, resource)
AddToCache ==
    \E identifier \in Hashable, resource \in Cacheable :
        Commit([addToCache(State, identifier, resource)
                   EXCEPT !.op = Op("addToCache", NoHash, identifier, resource)])

\* loader.getFromCache(identifier)
GetFromCache ==
    \E identifier \in Hashable :
        Commit([State EXCEPT !.op = Op("getFromCache", NoHash, identifier,
                                       getFromCache(State, identifier))])

\* loader.removeFromCache(identifier)
RemoveFromCache ==
    \E identifier \in Hashable :
        Commit([removeFromCache(State, identifier)
                   EXCEPT !.op = Op("removeFromCache", NoHash, identifier, NoRes)])

OpsRequest == RequestFrom(OpsBatches, MaxOpsCalls)

FontRequest == RequestFrom(FontBatches, MaxFontCalls)

\* ---------------------------------------------------------------- the operations of ProgressSpec
\* Mutant of resetProgress: only the requested counter is reset.
resetRequested(L) ==
    [L EXCEPT !.requested = 0,
              !.last.stale = TRUE,
              !.op = Op("resetProgress", NoHash, NoId, NoRes)]

\* resetProgress()
resetProgress(L) ==
    [L EXCEPT !.requested = 0,
              !.loaded = 0,
              !.last.stale = TRUE,
              !.op = Op("resetProgress", NoHash, NoId, NoRes)]

\* loader.resetProgress(), at any time
ResetProgress == Commit(resetProgress(State))

ProgressRequest == RequestFrom(Batches, MaxProgressCalls)

\* ---------------------------------------------------------------- the operations of EvictSpec
\* The batches of EvictSpec.
EvictBatches == { <<ImageA>>, <<ImageB>> }

\* loader.removeFromCache(identifier) for an identifier whose hash has a
\* resource in the cache; the call is recorded with the hash and the
\* resource it removed.
Evict ==
    \E identifier \in Hashable :
        /\ getFromCache(State, identifier) # NoRes
        /\ Commit([removeFromCache(State, identifier)
                      EXCEPT !.op = Op("removeFromCache", getHash(State, identifier),
                                       identifier, getFromCache(State, identifier))])

EvictRequest == RequestFrom(EvictBatches, MaxEvictCalls)

\* ---------------------------------------------------------------- the application
\* tick(): the first call starts the loop.
tick(L) == [L EXCEPT !.app.ticking = TRUE]

\* load() of loadFromToc: the assets of the pack are loaded, or, without
\* assets, a timeout is set; the pack is requested after either.
load(L, assets) ==
    [L EXCEPT !.app.toc = IF assets THEN "assets" ELSE "timeout"]

\* fire('librariesloaded'): the listeners run in the order they were added.
RECURSIVE RunListeners(_, _)
RunListeners(L, ls) ==
    IF ls = <<>> THEN L
    ELSE RunListeners(IF Head(ls) = "tick" THEN tick(L)
                      ELSE load(L, Head(ls) = "loadAssets"),
                      Tail(ls))

\* this.fire('librariesloaded', this); this.librariesLoaded = true
LibrariesLoadedFired(L) ==
    [RunListeners(L, L.app.listeners) EXCEPT !.app.librariesLoaded = TRUE,
                                             !.app.listeners = <<>>]

\* The constructor's request for the libraries.
LibrariesRequested(L) == [L EXCEPT !.app.libs = Len(L.calls)]

\* new pc.fw.Application(canvas, options), from its library loading on
Construct ==
    /\ ~app.made
    /\ \E libraries \in {<<>>, <<ScriptL>>} :
          IF Len(libraries) > 0
          THEN Commit(LibrariesRequested(request([State EXCEPT !.app.made = TRUE],
                                                 libraries, 0)))
          ELSE Commit(LibrariesLoadedFired([State EXCEPT !.app.made = TRUE]))

\* The then-callback of the libraries request
LibrariesResolved ==
    /\ app.libs # 0
    /\ ~app.librariesLoaded
    /\ calls[app.libs].st = "resolved"
    /\ Commit(LibrariesLoadedFired(State))

\* Mutant of start: the loop is started at once.
startAtOnce(L) == tick(L)

\* start()
start(L) ==
    IF ~L.app.librariesLoaded
    THEN [L EXCEPT !.app.listeners = Append(@, "tick")]
    ELSE tick(L)

\* loadFromToc(name, ...), for a table of contents with or without assets
loadFromToc(L, assets) ==
    IF ~L.app.librariesLoaded
    THEN [L EXCEPT !.app.listeners =
                      Append(@, IF assets THEN "loadAssets" ELSE "load")]
    ELSE load(L, assets)

Start ==
    /\ app.made
    /\ ~app.ticking
    /\ \A k \in 1..Len(app.listeners) : app.listeners[k] # "tick"
    /\ Commit(start(State))

LoadFromToc ==
    /\ app.made
    /\ app.toc = "none"
    /\ \A k \in 1..Len(app.listeners) : app.listeners[k] = "tick"
    /\ \E assets \in BOOLEAN : Commit(loadFromToc(State, assets))

\* onLoaded of loadFromToc: the request for the pack
OnLoaded ==
    /\ app.toc \in {"assets", "timeout"}
    /\ Commit(request([State EXCEPT !.app.toc = "pack"], <<PackA>>, 0))

\* ---------------------------------------------------------------- the operations of HandlerSpec
\* loader.registerHandler(RequestType, handler)
RegisterHandler ==
    \E RequestType \in {"ImageRequest", "FontRequest", "ResourceRequest"},
       handler \in {"ImageResourceHandler", "OtherResourceHandler"} :
        Commit(registerHandler(State, RequestType, handler))

\* loader.open(RequestType, data), as for the OPEN_PACK and OPEN_ENTITY
\* messages of the application
Open ==
    \E RequestType \in {"ImageRequest", "PackRequest", "FontRequest"},
       data \in {"a", "q"} :
        Step(open(State, RequestType, data), MaxHandlerCalls)

HandlerRequest == RequestFrom(HandlerBatches, MaxHandlerCalls)

Next ==
    \/ RegisterHash
    \/ UnregisterHash
    \/ Request
    \/ LoadSucceed
    \/ OpenThrows
    \/ LoadFail
    \/ FollowOn
    \/ CallCheck
    \/ CallReject

Spec == Init /\ [][Next]_vars

\* Packs whose components request further resources while the pack opens.
TreeNext ==
    \/ TreeRequest
    \/ LoadSucceed
    \/ OpenThrows
    \/ LoadFail
    \/ FollowOn
    \/ CallCheck
    \/ CallReject

TreeSpec == Init /\ [][TreeNext]_vars

OpsNext ==
    \/ OpsRegisterHash
    \/ OpsUnregisterHash
    \/ AddToCache
    \/ GetFromCache
    \/ RemoveFromCache
    \/ OpsRequest
    \/ LoadSucceed
    \/ OpenThrows
    \/ LoadFail
    \/ FollowOn
    \/ CallCheck
    \/ CallReject

OpsSpec == OpsInit /\ [][OpsNext]_vars

FontNext ==
    \/ FontRequest
    \/ LoadSucceed
    \/ OpenThrows
    \/ LoadFail
    \/ FollowOn
    \/ CallCheck
    \/ CallReject

FontSpec == Init /\ [][FontNext]_vars

HandlerNext ==
    \/ RegisterHandler
    \/ Open
    \/ HandlerRequest
    \/ LoadSucceed
    \/ OpenThrows
    \/ LoadFail
    \/ FollowOn
    \/ CallCheck
    \/ CallReject

HandlerSpec == Init /\ [][HandlerNext]_vars

ProgressNext ==
    \/ RegisterHash
    \/ UnregisterHash
    \/ ResetProgress
    \/ ProgressRequest
    \/ LoadSucceed
    \/ OpenThrows
    \/ LoadFail
    \/ FollowOn
    \/ CallCheck
    \/ CallReject

ProgressSpec == Init /\ [][ProgressNext]_vars

EvictNext ==
    \/ RegisterHash
    \/ UnregisterHash
    \/ Evict
    \/ EvictRequest
    \/ LoadSucceed
    \/ OpenThrows
    \/ LoadFail
    \/ FollowOn
    \/ CallCheck
    \/ CallReject

EvictSpec == Init /\ [][EvictNext]_vars

CloneRequest == RequestFrom(CloneBatches, MaxCloneCalls)

CloneNext ==
    \/ RegisterHash
    \/ UnregisterHash
    \/ CloneRequest
    \/ LoadSucceed
    \/ OpenThrows
    \/ LoadFail
    \/ FollowOn
    \/ CallCheck
    \/ CallReject

CloneSpec == Init /\ [][CloneNext]_vars

DataRequest == RequestFrom(DataBatches, MaxDataCalls)

DataNext ==
    \/ DataRequest
    \/ LoadSucceed
    \/ OpenThrows
    \/ LoadFail
    \/ FollowOn
    \/ CallCheck
    \/ CallReject

DataSpec == Init /\ [][DataNext]_vars

CycleRequest == RequestFrom(CycleBatches, MaxCycleCalls)

CycleNext ==
    \/ CycleRequest
    \/ LoadSucceed
    \/ OpenThrows
    \/ LoadFail
    \/ FollowOn
    \/ CallCheck
    \/ CallReject

\* The then-callback of a resolved pc.promise.all is run by the event loop:
\* a check that can run does run, for every call.
CycleSpec ==
    /\ Init
    /\ [][CycleNext]_vars
    /\ \A c \in 1..MaxCycleCalls : WF_vars(CallCheckOf(c))

AppNext ==
    \/ Construct
    \/ LibrariesResolved
    \/ Start
    \/ LoadFromToc
    \/ OnLoaded
    \/ LoadSucceed
    \/ OpenThrows
    \/ LoadFail
    \/ CallCheck
    \/ CallReject

AppSpec == Init /\ [][AppNext]_vars

\* ---------------------------------------------------------------- properties
Objs == 1..Len(objs)
Calls == 1..Len(calls)

LoadInvoked(r) == objs[r].load # "none"
LoadOutstanding(r) == objs[r].load = "pending"

\* Nothing is left to run: every handler load has settled and no then-callback
\* is scheduled.
Quiescent ==
    /\ \A r \in Objs : ~LoadOutstanding(r)
    /\ \A r \in Objs : \A i \in 2..Len(objs[r].promises) :
          ~(objs[r].promises[i].st = "pending" /\ objs[r].promises[1].st = "resolved")
    /\ \A c \in Calls :
          calls[c].st = "pending" => ~AllResolved(c) /\ ~SomeRejected(c)

\* Two request objects the find-or-merge step is meant to treat as one: same
\* type, no result target.
Mergeable(r1, r2) ==
    /\ objs[r1].type = objs[r2].type
    /\ ~objs[r1].result
    /\ ~objs[r2].result

\* C1: for identifiers a and b registered to the same hash, requests issued
\* while neither has settled share one handler load: at most one load is
\* outstanding per content hash.
C1_OneLoadPerHash ==
    \A r1, r2 \in Objs :
        /\ r1 # r2
        /\ Mergeable(r1, r2)
        /\ _hashes[objs[r1].identifier] # NoHash
        /\ _hashes[objs[r1].identifier] = _hashes[objs[r2].identifier]
        => ~(LoadOutstanding(r1) /\ LoadOutstanding(r2))

\* C2: a second request object with the same identifier and type and no
\* result target, issued while the first is in flight, is merged into it: the
\* handler's load is not invoked a second time.
C2_SecondRequestMerged ==
    \A r1, r2 \in Objs :
        /\ r1 # r2
        /\ Mergeable(r1, r2)
        /\ objs[r1].identifier = objs[r2].identifier
        => ~(LoadOutstanding(r1) /\ LoadOutstanding(r2))

\* C7: every failure surfaces to every caller waiting on it: once all handler
\* loads have settled and every scheduled callback has run, no request() call
\* is still pending.
C7_NoCallHangs ==
    Quiescent => \A c \in Calls : calls[c].st # "pending"

\* The request objects a step hands to the loader for the first time.
New == (Len(objs) + 1)..Len(objs')

\* What the cache holds, before the step, for the hash of r's canonical
\* identifier.
CachedFor(r) ==
    LET hash == _hashes[objs'[r].canonical]
    IN IF hash = NoHash THEN NoRes ELSE _cache[hash]

CacheMatches(r) ==
    /\ CachedFor(r) # NoRes
    /\ objs'[r].Type = "undefined" \/ CachedFor(r).cls = objs'[r].Type

\* An earlier request for the same identifier and type has resolved.
ResolvedBefore(r) ==
    \E r1 \in Objs :
        /\ objs[r1].identifier = objs'[r].identifier
        /\ objs[r1].type = objs'[r].type
        /\ objs[r1].promises[1].st = "resolved"

\* The step ran post-open, and so handler.clone, for r.
CloneInvoked(r) ==
    /\ cloned' > cloned
    /\ \E k \in 1..Len(fired') : fired'[k].ev = "load" /\ fired'[k].r = r

\* C4 as stated: a request(id) issued after an earlier request(id) has
\* resolved does not invoke the handler's load, and invokes clone.
C4_NoReloadAfterSuccess ==
    [][\A r \in New :
          ResolvedBefore(r) => objs'[r].load = "none" /\ CloneInvoked(r)]_vars

\* C4 amended: the same, for a request dispatched while the cache holds,
\* under the registered hash of its canonical identifier, a resource that
\* matches its expected Type.
C4_CachedNoReload ==
    [][\A r \in New :
          ResolvedBefore(r) /\ CacheMatches(r)
          => objs'[r].load = "none" /\ CloneInvoked(r)]_vars

\* C4 witness: a request resolved from the cache after an earlier request
\* for the same identifier had loaded it.
C4_Witness ==
    \E r1, r2 \in Objs :
        /\ r1 < r2
        /\ objs[r1].identifier = objs[r2].identifier
        /\ objs[r1].load = "ok"
        /\ objs[r2].load = "none"
        /\ objs[r2].promises[1].st = "resolved"

\* The content an identifier names: its hash when one is registered.
Key(identifier) ==
    IF _hashes[identifier] # NoHash THEN _hashes[identifier] ELSE identifier

\* C5: a request() call resolves with one entry per input request, entry i
\* being the resource of input request i, whatever order the loads complete in.
C5_ResultsInInputOrder ==
    \A c \in Calls :
        calls[c].st = "resolved"
        => /\ Len(calls[c].resources) = Len(calls[c].inputs)
           /\ \A i \in 1..Len(calls[c].inputs) :
                 Key(calls[c].resources[i].src) = Key(calls[c].inputs[i].identifier)

\* C5 witness: a batch of two resolved with two different resources.
C5_Witness ==
    \E c \in Calls :
        /\ calls[c].st = "resolved"
        /\ Len(calls[c].inputs) = 2
        /\ calls[c].resources[1].src # calls[c].resources[2].src

TopRejected(c) ==
    \E i \in 1..Len(calls[c].promises) :
        PromiseOf(State, calls[c].promises[i]).st = "rejected"

\* C6: once a constituent request of a batch has rejected, the request()
\* call is rejected, or its rejection callback is scheduled, and it has not
\* resolved with any resource array.
C6_BatchFailsWhole ==
    \A c \in Calls :
        TopRejected(c)
        => /\ calls[c].resources = <<>>
           /\ \/ calls[c].st = "rejected"
              \/ calls[c].st = "pending" /\ SomeRejected(c)

\* C6 witness: a rejected batch one of whose requests resolved.
C6_Witness ==
    \E c \in Calls :
        /\ calls[c].st = "rejected"
        /\ \E i \in 1..Len(calls[c].promises) :
              PromiseOf(State, calls[c].promises[i]).st = "resolved"

\* JavaScript's l1 / q1 >= l2 / q2 for l1, l2 >= 1 (x / 0 is Infinity).
RatioGeq(l1, q1, l2, q2) ==
    IF q1 = 0 THEN TRUE ELSE IF q2 = 0 THEN FALSE ELSE l1 * q2 >= l2 * q1

ProgressFired == {k \in 1..Len(fired) : fired[k].ev = "progress"}

\* C8 as stated: the values carried by progress notifications never decrease.
C8_ProgressNeverDecreases ==
    \A k \in ProgressFired :
        fired[k].prev # NoProgress
        => RatioGeq(fired[k].l, fired[k].q, fired[k].prev.l, fired[k].prev.q)

\* C8 amended: a progress notification is not smaller than the one before
\* it when the requested counter did not change between the two.
C8_ProgressMonotoneBetweenDispatches ==
    \A k \in ProgressFired :
        fired[k].prev # NoProgress /\ ~fired[k].prev.stale
        => RatioGeq(fired[k].l, fired[k].q, fired[k].prev.l, fired[k].prev.q)

\* C8 witness: two notifications in a row with no dispatch in between.
C8_Witness ==
    \E k \in ProgressFired :
        /\ fired[k].prev # NoProgress
        /\ ~fired[k].prev.stale
        /\ fired[k].l > fired[k].prev.l

\* C9: a progress notification carries 1.0 exactly when every dispatched
\* request has settled.
C9_ProgressOneIffSettled ==
    \A k \in ProgressFired :
        (fired[k].l = fired[k].q) <=> (fired[k].open = 0)

\* C10: a dispatched request finding in the cache a resource that does not
\* match its expected Type loads; finding one that matches, or having no
\* expected Type, it resolves with the cached resource and does not load.
C10_TypeMismatchBypass ==
    [][\A r \in New :
          _handlers[objs'[r].type] # Unregistered /\ CachedFor(r) # NoRes
          => IF CacheMatches(r)
             THEN /\ objs'[r].load = "none"
                  /\ objs'[r].promises[1].st = "resolved"
                  /\ objs'[r].promises[1].val.src = CachedFor(r).src
             ELSE /\ objs'[r].load = "pending"
                  /\ objs'[r].promises[1].st = "pending"]_vars

\* C10 witness: a load outstanding for a request whose expected Type the
\* cached resource does not match.
C10_Witness ==
    \E r \in Objs :
        /\ LoadOutstanding(r)
        /\ objs[r].Type # "undefined"
        /\ _hashes[objs[r].canonical] # NoHash
        /\ _cache[_hashes[objs[r].canonical]] # NoRes
        /\ _cache[_hashes[objs[r].canonical]].cls # objs[r].Type

\* ---------------------------------------------------------------- post-open
\* The number of per-request promises that have resolved.
ResolvedPromises(os) ==
    Sum([r \in 1..Len(os) |->
            Cardinality({i \in 1..Len(os[r].promises) :
                            os[r].promises[i].st = "resolved"})],
        Len(os))

LoadEvents == {k \in 1..Len(fired') : fired'[k].ev = "load"}

\* Promise i of request r resolves in the step.
ResolvesNow(r, i) ==
    /\ i \in 1..Len(objs'[r].promises)
    /\ objs'[r].promises[i].st = "resolved"
    /\ \/ r > Len(objs)
       \/ i > Len(objs[r].promises)
       \/ objs[r].promises[i].st = "pending"

Promises(os) == Sum([r \in 1..Len(os) |-> Len(os[r].promises)], Len(os))

\* C13: the requested counter grows by one per dispatched request object and
\* not for a request merged into one in flight: in every step it grows by
\* the number of request objects the step dispatches for the first time.
C13_RequestedPerDispatchedRequest ==
    [][_requested' - _requested = Len(objs') - Len(objs)]_vars

\* C13 as the code has it: the requested counter grows by one per
\* per-request promise, so a request merged into one in flight counts again.
C13_RequestedPerPromise ==
    [][_requested' - _requested = Promises(objs') - Promises(objs)]_vars

\* One request object carries two callers and was counted twice.
C13_Witness ==
    /\ Len(objs) = 1
    /\ Len(objs[1].promises) = 2
    /\ _requested = 2

\* ---------------------------------------------------------------- the hash registry
\* The canonical identifier the registry holds, before the step, for the hash
\* of an identifier (NoId when there is none).
CanonicalOf(identifier) ==
    IF _hashes[identifier] # NoHash
    THEN _canonicals[_hashes[identifier]] ELSE NoId

\* C14: the first identifier registered against a hash stays its canonical
\* identifier: a registerHash call never changes the canonical identifier a
\* hash already has, and every request dispatched for an identifier whose
\* hash has a canonical identifier is canonicalized to it.
C14_FirstRegisteredStaysCanonical ==
    [][/\ op'.name = "registerHash" =>
             \A h \in DOMAIN _canonicals :
                _canonicals[h] # NoId => _canonicals'[h] = _canonicals[h]
       /\ \A r \in New :
             CanonicalOf(objs'[r].identifier) # NoId =>
                objs'[r].canonical = CanonicalOf(objs'[r].identifier)]_vars

\* b was registered to a hash whose canonical identifier is a, and a request
\* for b was canonicalized to a.
C14_Witness ==
    \E r \in Objs :
        /\ objs[r].identifier = "b"
        /\ objs[r].canonical = "a"
        /\ _hashes["b"] # NoHash
        /\ _hashes["a"] = _hashes["b"]
        /\ _canonicals[_hashes["b"]] = "a"

\* The registry after the step.
RegistryAfter == [hashes |-> _hashes', canonicals |-> _canonicals']

\* C15: registerHash is idempotent and never overwrites: the same call made
\* again right after it changes nothing, and an identifier that has a hash
\* keeps it whatever hash it is registered with next.
C15_RegisterHashIdempotent ==
    [][op'.name = "registerHash" =>
          /\ registerHash(RegistryAfter, op'.hash, op'.identifier) = RegistryAfter
          /\ \A i \in DOMAIN _hashes :
                getHash(State, i) # NoHash =>
                   getHash(RegistryAfter, i) = getHash(State, i)]_vars

\* registerHash was called for an identifier that had another hash, and the
\* identifier still has that one.
C15_Witness ==
    /\ op.name = "registerHash"
    /\ _hashes[op.identifier] # NoHash
    /\ _hashes[op.identifier] # op.hash

\* C16: unregisterHash(identifier) removes the identifier's hash, and removes
\* the canonical entry of that hash only when the identifier is the canonical
\* one: the canonical identifier of a hash is left as it is when another
\* identifier is unregistered.
C16_UnregisterKeepsOtherCanonical ==
    [][op'.name = "unregisterHash" =>
          /\ _hashes'[op'.identifier] = NoHash
          /\ \A h \in DOMAIN _canonicals :
                _canonicals[h] # op'.identifier =>
                   _canonicals'[h] = _canonicals[h]]_vars

\* C17: once the canonical identifier of a hash has been unregistered, the
\* hash has no canonical identifier, and a request dispatched for another
\* identifier still registered to that hash is canonicalized to its own
\* identifier.
C17_CanonicalizedToItself ==
    [][/\ /\ op'.name = "unregisterHash"
          /\ CanonicalOf(op'.identifier) = op'.identifier
          => _canonicals'[getHash(State, op'.identifier)] = NoId
       /\ \A r \in New :
             /\ getHash(State, objs'[r].identifier) # NoHash
             /\ CanonicalOf(objs'[r].identifier) = NoId
             => objs'[r].canonical = objs'[r].identifier]_vars

\* a is unregistered, b still has its hash, the hash has no canonical
\* identifier, and a request for b was dispatched under b.
C17_Witness ==
    \E r \in Objs :
        /\ objs[r].identifier = "b"
        /\ objs[r].canonical = "b"
        /\ op.name = "none"
        /\ _hashes["a"] = NoHash
        /\ _hashes["b"] # NoHash
        /\ _canonicals[_hashes["b"]] = NoId
        /\ objs[r].load = "pending"

\* ---------------------------------------------------------------- the cache
\* The registry and the cache after the step.
CacheAfter == [hashes |-> _hashes', cache |-> _cache']

\* The identifiers registered, before the step, to the hash of an identifier.
SameHash(identifier) ==
    {i \in DOMAIN _hashes :
        _hashes[i] # NoHash /\ _hashes[i] = _hashes[identifier]}

\* C18: the cache is keyed by content hash: after addToCache(a, r),
\* getFromCache returns r for every identifier registered to the hash of a;
\* after removeFromCache(b), getFromCache finds nothing for any identifier
\* registered to the hash of b; and getFromCache answers alike for two
\* identifiers of one hash.
C18_CacheKeyedByHash ==
    [][/\ op'.name = "addToCache" =>
             \A i \in SameHash(op'.identifier) :
                getFromCache(CacheAfter, i) = op'.res
       /\ op'.name = "removeFromCache" =>
             \A i \in SameHash(op'.identifier) :
                getFromCache(CacheAfter, i) = NoRes
       /\ op'.name = "getFromCache" =>
             \A i \in SameHash(op'.identifier) :
                getFromCache(State, i) = op'.res]_vars

\* getFromCache(b) returned a resource a caller had added, a and b being
\* registered to one hash.
C18_Witness ==
    /\ op.name = "getFromCache"
    /\ op.identifier = "b"
    /\ op.res \in Cacheable
    /\ _hashes["a"] = _hashes["b"]

\* C19: a resource whose identifier has no registered hash is never cached:
\* addToCache for it leaves the cache as it is, whether a caller calls it or
\* post-open does; getFromCache finds nothing for it; and every request for
\* it that is dispatched as a request of its own, to a type that has a
\* handler, invokes the handler's load.
C19_UnhashedNeverCached ==
    [][/\ /\ op'.name = "addToCache"
          /\ getHash(State, op'.identifier) = NoHash
          => _cache' = _cache
       /\ /\ op'.name = "getFromCache"
          /\ getHash(State, op'.identifier) = NoHash
          => op'.res = NoRes
       /\ \A r \in 1..Len(objs') :
             /\ \E i \in 1..Len(objs'[r].promises) : ResolvesNow(r, i)
             /\ getHash(State, objs'[r].canonical) = NoHash
             => _cache' = _cache
       /\ \A r \in New :
             /\ getHash(State, objs'[r].identifier) = NoHash
             /\ _handlers[objs'[r].type] # Unregistered
             => objs'[r].load = "pending"]_vars

\* A request for an identifier without a hash has just loaded and resolved,
\* and the cache is empty.
C19_Witness ==
    \E r \in Objs :
        /\ \E k \in 1..Len(fired) : fired[k].ev = "load" /\ fired[k].r = r
        /\ objs[r].load = "ok"
        /\ _hashes[objs[r].canonical] = NoHash
        /\ \A h \in DOMAIN _cache : _cache[h] = NoRes
        /\ \E i \in DOMAIN _hashes : _hashes[i] # NoHash

\* ---------------------------------------------------------------- missing handlers
\* The type of request r has no registered handler.
NoHandler(os, r) == _handlers[os[r].type] = Unregistered

\* Request s was dispatched as usual: it has its promise, and either the
\* handler's load was invoked or the cache answered.
Dispatched(os, s) ==
    /\ Len(os[s].promises) >= 1
    /\ \/ os[s].load # "none"
       \/ os[s].promises[1].st = "resolved"

\* C20: a request whose type has no registered handler rejects its promise
\* with the message and fires an error notification carrying the request in
\* the step that dispatches it; the handler load is never invoked for it; the
\* request() call it belongs to never resolves and is rejected once nothing
\* is left to run; and the other requests of the batch are dispatched as
\* usual.
C20_MissingHandlerRejects ==
    [][/\ \A r \in New :
             NoHandler(objs', r) =>
                /\ objs'[r].promises = <<Rejected("missing")>>
                /\ \E k \in 1..Len(fired') :
                      fired'[k].ev = "error" /\ fired'[k].r = r
       /\ \A r \in 1..Len(objs') :
             NoHandler(objs', r) => objs'[r].load = "none"
       /\ \A c \in 1..Len(calls') :
             (\E k \in 1..Len(calls'[c].requested) :
                 NoHandler(objs', calls'[c].requested[k]))
             => /\ calls'[c].st # "resolved"
                /\ Quiescent' => calls'[c].st = "rejected"
                /\ \A k \in 1..Len(calls'[c].requested) :
                      ~NoHandler(objs', calls'[c].requested[k])
                         => Dispatched(objs', calls'[c].requested[k])]_vars

\* ---------------------------------------------------------------- subtrees
Range(f) == {f[k] : k \in DOMAIN f}

ChildrenOf(S) == UNION {Range(objs[r].children) : r \in S}

RECURSIVE Closure(_, _)
Closure(S, n) == IF n = 0 THEN S ELSE Closure(S \cup ChildrenOf(S), n - 1)

\* The children, grandchildren and so on of the requests of call c.
Descendants(c) == Closure(ChildrenOf(Range(calls[c].requested)), Len(objs))

C3_NotBeforeChildren ==
    \A c \in Calls :
        calls[c].st = "resolved"
        => \A d \in Descendants(c) : objs[d].promises[1].st # "pending"

C3_RejectedDescendant ==
    \A c \in Calls :
        /\ Quiescent
        /\ \E d \in Descendants(c) : \E i \in 1..Len(objs[d].promises) :
              objs[d].promises[i].st = "rejected"
        => calls[c].st = "rejected"

\* C3: a request() call does not resolve before every descendant of its
\* requests has settled, and it rejects if a descendant's promise rejects
\* (once nothing is left to run, it has rejected).
C3_SubtreeSettles == C3_NotBeforeChildren /\ C3_RejectedDescendant

\* ---------------------------------------------------------------- failures
\* The primary promise of request r is rejected in the step, with error e.
RejectsNow(r, e) ==
    /\ r \in 1..Len(objs')
    /\ objs'[r].promises[1] = Rejected(e)
    /\ \/ r > Len(objs)
       \/ objs[r].promises[1].st = "pending"

\* Call c is rejected in the step.
CallRejectsNow(c) ==
    /\ calls'[c].st = "rejected"
    /\ c \in 1..Len(calls)
    /\ calls[c].st = "pending"

\* C21: when a handler's load fails, the error notification carrying the
\* request is fired while the request's promise is still pending, and the
\* request() call is rejected in a later step, for a promise that was
\* rejected before that step.
C21_ErrorBeforeRejection ==
    [][/\ \A r \in 1..Len(objs') :
             RejectsNow(r, "load") =>
                \E k \in 1..Len(fired') :
                   /\ fired'[k].ev = "error"
                   /\ fired'[k].r = r
                   /\ fired'[k].open = 1
       /\ \A c \in 1..Len(calls') :
             CallRejectsNow(c) => fired' = <<>> /\ SomeRejected(c)]_vars

\* A call was rejected for a load that failed.
C21_Witness ==
    \E c \in Calls : \E k \in 1..Len(calls[c].promises) :
        /\ calls[c].st = "rejected"
        /\ PromiseOf(State, calls[c].promises[k]) = Rejected("load")

\* The request() calls that wait on the primary promise of request r.
WaitingOnPrimary(r) ==
    {c \in 1..Len(calls') :
        \E k \in 1..Len(calls'[c].promises) : calls'[c].promises[k] = <<r, 1>>}

\* C22: when the handler's load has delivered data, the request's promise
\* settles in the same step: it resolves, or, the handler's open having
\* thrown, it is rejected with the exception. In that case nothing is
\* loaded or cached, the promise stays rejected, and the request() calls
\* waiting on it never resolve and are rejected once nothing is left to run.
C22_OpenThrowsRejects ==
    [][\A r \in 1..Len(objs) :
          /\ /\ objs[r].load = "pending"
             /\ objs'[r].load = "ok"
             => \/ objs'[r].promises[1].st = "resolved"
                \/ /\ RejectsNow(r, "open")
                   /\ _loaded' = _loaded
                   /\ _cache' = _cache
          /\ objs[r].promises[1] = Rejected("open")
             => objs'[r].promises[1] = Rejected("open")
          /\ objs'[r].promises[1] = Rejected("open")
             => \A c \in WaitingOnPrimary(r) :
                   /\ calls'[c].st # "resolved"
                   /\ Quiescent' => calls'[c].st = "rejected"]_vars

\* A call was rejected for a request whose open threw.
C22_Witness ==
    \E c \in Calls : \E k \in 1..Len(calls[c].promises) :
        /\ calls[c].st = "rejected"
        /\ PromiseOf(State, calls[c].promises[k]) = Rejected("open")

\* C23: every request that fails, for a missing handler, a failed load or an
\* open that threw, produces an error notification carrying the request: the
\* step that rejects its primary promise fires one.
C23_EveryFailureNotified ==
    [][\A r \in 1..Len(objs') :
          (\E e \in {"missing", "load", "open"} : RejectsNow(r, e))
          => \E k \in 1..Len(fired') :
                fired'[k].ev = "error" /\ fired'[k].r = r]_vars

\* ---------------------------------------------------------------- merging
\* The identifier requests for an identifier are made under, by the registry
\* before the step.
CanonicalFor(identifier) ==
    IF CanonicalOf(identifier) # NoId THEN CanonicalOf(identifier) ELSE identifier

\* The request in the in-flight table, before the step, that input t is to
\* be merged into (0 when there is none): it has t's canonical identifier
\* and type, and neither carries a result target.
MergeTarget(t) ==
    IF /\ _requests[CanonicalFor(t.identifier)] # 0
       /\ objs[_requests[CanonicalFor(t.identifier)]].type = t.type
       /\ ~objs[_requests[CanonicalFor(t.identifier)]].result
       /\ ~t.result
    THEN _requests[CanonicalFor(t.identifier)]
    ELSE 0

\* C24: the first request of a request() call is merged into a request of
\* the in-flight table exactly when the two share the canonical identifier
\* and the type and neither carries a result target; otherwise it is
\* dispatched as a request object of its own.
C24_MergedExactlyWhenSame ==
    [][Len(calls') > Len(calls) =>
          IF MergeTarget(calls'[Len(calls) + 1].inputs[1]) # 0
          THEN calls'[Len(calls) + 1].requested[1] =
                  MergeTarget(calls'[Len(calls) + 1].inputs[1])
          ELSE /\ calls'[Len(calls) + 1].requested[1] > Len(objs)
               /\ Dispatched(objs', calls'[Len(calls) + 1].requested[1])]_vars

\* ---------------------------------------------------------------- the in-flight table
\* C25: once the primary promise of a request has resolved, from a fresh
\* load, from the cache or with callers merged into it, the in-flight table
\* holds no entry for the request under its canonical identifier.
C25_ResolvedNotInFlight ==
    \A r \in Objs :
        /\ Len(objs[r].promises) >= 1
        /\ objs[r].promises[1].st = "resolved"
        => _requests[objs[r].canonical] # r

\* ---------------------------------------------------------------- complete
\* The complete notifications of the step for call c.
CompleteEvents(c) ==
    {k \in 1..Len(fired') : fired'[k].ev = "complete" /\ fired'[k].r = c}

\* Call c resolves in the step.
CallResolvesNow(c) ==
    /\ calls'[c].st = "resolved"
    /\ c \in 1..Len(calls)
    /\ calls[c].st = "pending"

\* C26: a complete notification is fired for a request() call in the step
\* that resolves it, once, while the call is still pending, and in no other
\* step, so never for a call that is rejected. By then the promises the call
\* got for its requests have resolved and no descendant of its requests is
\* still loading. The call resolves with one resource per input, those its
\* own promises resolved with, the children's not among them.
C26_CompleteOncePerResolvedCall ==
    [][\A c \in 1..Len(calls') :
          IF CallResolvesNow(c)
          THEN /\ Cardinality(CompleteEvents(c)) = 1
               /\ \A k \in CompleteEvents(c) : fired'[k].open = 1
               /\ \A k \in 1..Len(calls[c].promises) :
                     PromiseOf(State, calls[c].promises[k]).st = "resolved"
               /\ \A d \in Descendants(c) : objs[d].promises[1].st = "resolved"
               /\ calls'[c].resources =
                     [k \in 1..Len(calls[c].inputs) |->
                         PromiseOf(State, calls[c].promises[k]).val]
          ELSE /\ CompleteEvents(c) = {}
               /\ c \in 1..Len(calls) /\ calls[c].st # "pending"
                  => calls'[c] = calls[c]]_vars

\* A call for a pack resolved once the pack's child and grandchild had.
C26_Witness ==
    \E c \in Calls :
        /\ calls[c].st = "resolved"
        /\ calls[c].parent = 0
        /\ Cardinality(Descendants(c)) >= 2
        /\ \E k \in 1..Len(fired) : fired[k].ev = "complete" /\ fired[k].r = c

\* ---------------------------------------------------------------- registerHandler
\* C27: registerHandler with a request type whose type tag is empty throws
\* and leaves the type and handler tables as they are; with any other
\* request type it files the request type and the handler under the type
\* tag, replacing what was there, and every request dispatched afterwards
\* has its load invoked on the handler the table holds for its type.
C27_RegisterHandler ==
    [][/\ op'.name = "registerHandler" =>
             IF TypeOf(op'.identifier) = ""
             THEN /\ op'.err # "none"
                  /\ _types' = _types
                  /\ _handlers' = _handlers
             ELSE /\ op'.err = "none"
                  /\ _types' = [_types EXCEPT ![TypeOf(op'.identifier)] =
                                                 op'.identifier]
                  /\ _handlers' = [_handlers EXCEPT ![TypeOf(op'.identifier)] =
                                                       op'.hash]
       /\ \A r \in New :
             objs'[r].load = "pending" => objs'[r].by = _handlers[objs'[r].type]]_vars

\* The handler of images was replaced, and the load of a later request for
\* an image was invoked on the new one.
C27_Witness ==
    \E r \in Objs :
        /\ objs[r].type = "image"
        /\ objs[r].by = "OtherResourceHandler"
        /\ _handlers["image"] = "OtherResourceHandler"

\* ---------------------------------------------------------------- open
\* C28: open only invokes the handler's open: the step invokes no handler
\* load, leaves the cache, the in-flight table and the two counters as they
\* are, and fires no notification.
C28_OpenChangesNothing ==
    [][op'.name = "open" =>
          /\ \A r \in 1..Len(objs') :
                objs'[r].load = "pending" => r <= Len(objs) /\ objs[r].load = "pending"
          /\ _cache' = _cache
          /\ _requests' = _requests
          /\ _requested' = _requested
          /\ _loaded' = _loaded
          /\ fired' = <<>>]_vars

\* C28 as the code has it: no request is dispatched for the resource that
\* is opened, so the request object open creates gets no promise, no
\* sequence id, no load and no entry in the in-flight table, and the cache
\* is left as it is. When the handler's open issues no request, the step
\* changes nothing and fires no notification; when it does (the components
\* of a pack requesting their assets), there is one request() call more,
\* with the opened request as parent, and its requests are dispatched as
\* usual.
C28_OpenDispatchesOnlyChildren ==
    [][op'.name = "open" =>
          /\ _cache' = _cache
          /\ IF Len(calls') = Len(calls)
             THEN /\ objs' = objs
                  /\ _requests' = _requests
                  /\ _requested' = _requested
                  /\ _loaded' = _loaded
                  /\ fired' = <<>>
             ELSE /\ Len(calls') = Len(calls) + 1
                  /\ calls'[Len(calls')].parent = Len(objs) + 1
                  /\ objs'[Len(objs) + 1].promises = <<>>
                  /\ objs'[Len(objs) + 1].id = NullId
                  /\ objs'[Len(objs) + 1].load = "none"
                  /\ \A i \in DOMAIN _requests' : _requests'[i] # Len(objs) + 1
                  /\ _requested' - _requested =
                        Promises(objs') - Promises(objs)
                  /\ _loaded' - _loaded =
                        ResolvedPromises(objs') - ResolvedPromises(objs)]_vars

\* A pack was opened and the load of an asset it refers to was invoked.
C28_Witness ==
    /\ op.name = "open"
    /\ op.res.cls = "Pack"
    /\ Len(calls) >= 1
    /\ calls[Len(calls)].parent # 0
    /\ objs[calls[Len(calls)].parent].promises = <<>>
    /\ \E k \in 1..Len(calls[Len(calls)].requested) :
          objs[calls[Len(calls)].requested[k]].load = "pending"

\* ---------------------------------------------------------------- libraries
\* The libraries are loaded: there are none, or the request for them has
\* resolved.
LibrariesReady(a, cs) == a.made /\ (a.libs # 0 => cs[a.libs].st = "resolved")

\* C29: the tick loop does not run, and loadFromToc loads no asset and
\* requests no pack, before the libraries are loaded and 'librariesloaded'
\* has been fired; when no libraries are configured, start and loadFromToc
\* proceed at once.
C29_NothingBeforeLibraries ==
    [][/\ app'.ticking \/ app'.toc # "none"
          => app'.librariesLoaded /\ LibrariesReady(app', calls')
       /\ app.made /\ app.libs = 0 /\ app'.listeners # app.listeners
          => FALSE
       /\ app.made /\ app.libs = 0 /\ app' # app
          => app'.ticking # app.ticking \/ app'.toc # app.toc]_vars

\* start and loadFromToc were called while the libraries were loading, and
\* the loop runs and the pack is requested now that they are loaded.
C29_Witness ==
    /\ app.libs # 0
    /\ app.ticking
    /\ app.toc = "pack"
    /\ \E c \in Calls : c > app.libs /\ calls[c].inputs = <<PackA>>

\* ---------------------------------------------------------------- sequence ids
\* Request object r has been dispatched by the objects os.
HasId(os, r) == r \in 1..Len(os) /\ os[r].id # NullId

\* C30: a request object has a sequence id exactly from its first dispatch
\* and keeps it on every later dispatch or merge; no two request objects
\* have the same id, and an id given at a first dispatch is greater than
\* every id given before.
C30_SequenceIds ==
    [][\A r \in 1..Len(objs') :
          /\ HasId(objs', r) <=> Len(objs'[r].promises) > 0
          /\ HasId(objs, r) => objs'[r].id = objs[r].id
          /\ HasId(objs', r) /\ ~HasId(objs, r)
                => \A s \in 1..Len(objs) : objs[s].id < objs'[r].id
          /\ \A s \in 1..(r - 1) :
                HasId(objs', r) /\ HasId(objs', s) => objs'[s].id < objs'[r].id]_vars

\* A request object has been dispatched a second time, for a merged request,
\* and another object has been dispatched after its first dispatch.
C30_Witness ==
    \E r, s \in Objs :
        /\ Len(objs[r].promises) > 1
        /\ HasId(objs, r)
        /\ HasId(objs, s)
        /\ objs[r].id < objs[s].id

\* ---------------------------------------------------------------- resetProgress
\* C31: resetProgress sets the requested and the loaded counter to zero and
\* leaves the handler table, the hash registry, the cache and the in-flight
\* table as they are.
C31_ResetProgress ==
    [][op'.name = "resetProgress"
       => /\ _requested' = 0
          /\ _loaded' = 0
          /\ UNCHANGED <<_types, _handlers, _hashes, _canonicals, _cache,
                         _requests>>]_vars

\* resetProgress was called with both counters above zero, a resource in
\* the cache and a request in flight.
C31_Witness ==
    /\ op.name = "resetProgress"
    /\ lastProgress.l > 0
    /\ \E h \in Hashes : _cache[h] # NoRes
    /\ \E i \in Identifiers : _requests[i] # 0

\* C35: every progress notification carries a loaded counter above zero and
\* not above the requested counter, whatever the order of dispatches,
\* cache hits, completions and resetProgress calls.
C35_ProgressFractionInRange ==
    \A k \in ProgressFired : 0 < fired[k].l /\ fired[k].l <= fired[k].q

\* ---------------------------------------------------------------- eviction
\* The step is a request() call made right after removeFromCache evicted
\* the resource of hash op.hash, and input k of the call names an identifier
\* registered to that hash.
RequestAfterEviction(k) ==
    /\ op.name = "removeFromCache"
    /\ op.res # NoRes
    /\ Len(calls') = Len(calls) + 1
    /\ k \in 1..Len(calls'[Len(calls')].inputs)
    /\ _hashes[calls'[Len(calls')].inputs[k].identifier] = op.hash

\* Request r is opened in this step and has a registered hash.
OpensNow(r) ==
    /\ r \in 1..Len(objs)
    /\ objs[r].load = "pending"
    /\ objs'[r].load = "ok"
    /\ objs'[r].promises[1].st = "resolved"
    /\ _hashes[objs[r].canonical] # NoHash

\* C32: the request made for an identifier right after removeFromCache
\* evicted the resource of its hash has the handler's load invoked for it,
\* and the post-open of a load writes the opened resource into the cache
\* under the hash of the request's canonical identifier.
C32_EvictedIsLoadedAgain ==
    [][/\ \A k \in 1..Len(calls') :
             RequestAfterEviction(k)
             => objs'[calls'[Len(calls')].requested[k]].load = "pending"
       /\ \A r \in 1..Len(objs) :
             OpensNow(r)
             => _cache'[_hashes[objs[r].canonical]] = Opened(State, r)]_vars

\* ---------------------------------------------------------------- termination of the check
\* Every promise call c got for its requests, and every promise of every
\* descendant of its requests, has resolved.
SubtreeResolved(c) ==
    /\ c \in Calls
    /\ \A k \in 1..Len(calls[c].promises) :
          PromiseOf(State, calls[c].promises[k]).st = "resolved"
    /\ \A d \in Descendants(c) : \A i \in 1..Len(objs[d].promises) :
          objs[d].promises[i].st = "resolved"

\* C33: a request() call whose own promises and whose descendants' promises
\* have all resolved eventually resolves, also when a request made while a
\* pack was opened was merged into the pack's own request.
C33_CheckTerminates ==
    \A c \in 1..MaxCycleCalls :
        SubtreeResolved(c) ~> (c \in Calls /\ calls[c].st = "resolved")

\* ---------------------------------------------------------------- cached instances
\* C34: for a handler whose clone returns a fresh copy on every call, the
\* cache holds the instance the handler's open produced (copy 0), never a
\* copy that was handed to a caller.
C34_CacheHoldsOpened ==
    \A h \in Hashes :
        _cache[h] # NoRes /\ _cache[h].cls = ClassOf("model")
        => _cache[h].copy = 0

\* ---------------------------------------------------------------- failed requests
\* C36: a request whose primary promise was rejected (no handler, load
\* failed, open threw) is not in the in-flight table, and a request() call
\* made afterwards for its identifier and type is not merged onto it: the
\* call waits on a request that is loading or has settled by itself.
C36_FailedNotInFlight ==
    /\ \A i \in Identifiers :
          _requests[i] # 0 => objs[_requests[i]].promises[1].st # "rejected"
    /\ \A r \in Objs : \A k \in 2..Len(objs[r].promises) :
          objs[r].promises[1].st = "rejected" => objs[r].promises[k].st # "pending"

\* ---------------------------------------------------------------- requests in flight
\* The primary promise of request r of objects os has not settled.
InFlight(os, r) ==
    /\ r \in 1..Len(os)
    /\ Len(os[r].promises) > 0
    /\ os[r].promises[1].st = "pending"

\* C37: while a dispatched request has an unsettled primary promise, the
\* in-flight table has an entry for its canonical identifier, and the entry
\* of a request still in flight is neither removed nor replaced, also when
\* a request of another type or with a result target is dispatched for the
\* same canonical identifier and completes.
C37_InFlightHasEntry ==
    [][/\ \A r \in 1..Len(objs') :
             InFlight(objs', r) => _requests'[objs'[r].canonical] # 0
       /\ \A i \in Identifiers :
             InFlight(objs, _requests[i]) /\ InFlight(objs', _requests[i])
             => _requests'[i] = _requests[i]]_vars

\* ---------------------------------------------------------------- the registry, again
\* C38: the canonical identifier of a hash is registered to that hash,
\* after any sequence of registerHash and unregisterHash calls.
C38_CanonicalIsRegistered ==
    \A h \in DOMAIN _canonicals :
        _canonicals[h] # NoId => _hashes[_canonicals[h]] = h

\* C39: unregisterHash leaves the cache as it is; getFromCache finds nothing
\* for the identifier once it is unregistered; and an identifier without a
\* hash that is registered to a hash gets from the cache what is stored
\* under that hash, such as a resource cached before the hash lost its
\* identifiers.
C39_UnregisterKeepsCache ==
    [][/\ op'.name = "unregisterHash"
          => /\ _cache' = _cache
             /\ getFromCache(CacheAfter, op'.identifier) = NoRes
       /\ /\ op'.name = "getFromCache"
          /\ getHash(State, op'.identifier) = NoHash
          => op'.res = NoRes
       /\ /\ op'.name = "registerHash"
          /\ getHash(State, op'.identifier) = NoHash
          => getFromCache(CacheAfter, op'.identifier) = _cache[op'.hash]]_vars

\* unregisterHash was called, and the cache holds a resource under a hash
\* that no identifier is registered to any more.
C39_Witness ==
    /\ op.name = "unregisterHash"
    /\ _hashes[op.identifier] = NoHash
    /\ \E h \in DOMAIN _cache :
          /\ _cache[h] # NoRes
          /\ \A i \in DOMAIN _hashes : _hashes[i] # h

\* ---------------------------------------------------------------- merged data
\* The last input of the request() call made in the step that was given
\* request r.
LastInputFor(r) ==
    CHOOSE k \in 1..Len(calls'[Len(calls')].requested) :
        /\ calls'[Len(calls')].requested[k] = r
        /\ \A j \in (k + 1)..Len(calls'[Len(calls')].requested) :
              calls'[Len(calls')].requested[j] # r

====
